---- MODULE Spec2Model ----
(***************************************************************************)
(* Model of the caption pipeline scripts:                                  *)
(*   scripts/transcribe.py        probe duration, extract words, allocate  *)
(*                                timings, persist the CaptionSet          *)
(*   scripts/enhance_captions.py  flag low confidence, apply the external  *)
(*                                correction, persist the CaptionSet       *)
(* Texts are sequences of one-character strings; confidences and the       *)
(* threshold are hundredths (0.9 is 90), which preserves their order.      *)
(* Python floats are modelled bit-exactly as IEEE binary64 values for the  *)
(* three operations the timing allocation uses (int/int true division,     *)
(* int*float, int+float) followed by int() truncation.                     *)
(* SpecAlloc explores the timing allocation, Spec the pipeline (transcribe, *)
(* then enhancement runs), SpecEnhance the enhancement stage on any input. *)
(***************************************************************************)
EXTENDS Integers, Sequences, FiniteSets, TLC

----------------------------------------------------------------------------
(* Bounds of the model *)

MaxWords == 7
MaxDur == 2500
FracLen == 64
MaxChunkLen == 3
MaxCaps == 2
MaxReply == 3
MaxRuns == 2

----------------------------------------------------------------------------
(* Python float arithmetic (IEEE binary64, round to nearest even).         *)
(* A magnitude is [int, frac, sticky]: an integer part, FracLen binary     *)
(* digits after the point (frac[k] weighs 2^-k) and a flag saying that     *)
(* non-zero digits follow beyond FracLen.  A value adds a sign.            *)

Precision == 53

RECURSIVE BitLen(_)
BitLen(k) == IF k = 0 THEN 0 ELSE 1 + BitLen(k \div 2)

ZeroFrac == [k \in 1..FracLen |-> 0]

Ones(frac) == {k \in 1..FracLen : frac[k] = 1}

MaxOf(S) == CHOOSE m \in S : \A k \in S : k <= m

MinOf(S) == CHOOSE m \in S : \A k \in S : m <= k

LeadingZeros(frac) == IF Ones(frac) = {} THEN FracLen ELSE MinOf(Ones(frac)) - 1

\* position of the last binary digit a float of this magnitude keeps
LastPos(x) ==
    IF x.int > 0 THEN Precision - BitLen(x.int)
    ELSE Precision + LeadingZeros(x.frac)

\* add one unit in the last place (2^-P) to a magnitude whose digits after P are 0
AddUlp(x, P) ==
    LET zeros == {k \in 1..P : x.frac[k] = 0}
    IN  IF zeros = {}
        THEN [int |-> x.int + 1, frac |-> ZeroFrac, sticky |-> FALSE]
        ELSE LET j == MaxOf(zeros)
             IN  [int |-> x.int,
                  frac |-> [k \in 1..FracLen |->
                              IF k < j THEN x.frac[k] ELSE IF k = j THEN 1 ELSE 0],
                  sticky |-> FALSE]

RoundNearestEven(x) ==
    LET P == LastPos(x)
    IN  IF P >= FracLen THEN x
        ELSE LET guard == x.frac[P + 1]
                 rest  == x.sticky \/ \E k \in (P + 2)..FracLen : x.frac[k] = 1
                 lsb   == x.frac[P]
                 kept  == [int |-> x.int,
                           frac |-> [k \in 1..FracLen |-> IF k <= P THEN x.frac[k] ELSE 0],
                           sticky |-> FALSE]
             IN  IF guard = 1 /\ (rest \/ lsb = 1) THEN AddUlp(kept, P) ELSE kept

\* the eight binary digits of q < 256, most significant first
LimbBits(q) == [j \in 1..8 |-> (q \div (2 ^ (8 - j))) % 2]

NumLimbs == (FracLen + 7) \div 8

\* binary expansion of r / n (r < n), eight digits per step, and the remainder left
RECURSIVE DivBits(_, _, _)
DivBits(r, n, k) ==
    IF k = 0 THEN [bits |-> <<>>, rem |-> r]
    ELSE LET t == DivBits((256 * r) % n, n, k - 1)
         IN  [bits |-> LimbBits((256 * r) \div n) \o t.bits, rem |-> t.rem]

Abs(a) == IF a < 0 THEN -a ELSE a

\* a / n for Python ints a and n >= 1: correctly rounded true division
FloatDiv(a, n) ==
    LET d == DivBits(Abs(a) % n, n, NumLimbs)
    IN  [neg |-> a < 0,
         mag |-> RoundNearestEven(
                   [int |-> Abs(a) \div n,
                    frac |-> SubSeq(d.bits, 1, FracLen),
                    sticky |-> d.rem # 0
                               \/ \E k \in (FracLen + 1)..(8 * NumLimbs) : d.bits[k] = 1])]

DigitAt(frac, k) == IF k <= FracLen THEN frac[k] ELSE 0

\* the c-th group of eight digits of frac, as a number < 256
LimbAt(frac, c) ==
    LET b == 8 * (c - 1)
    IN  128 * DigitAt(frac, b + 1) + 64 * DigitAt(frac, b + 2)
        + 32 * DigitAt(frac, b + 3) + 16 * DigitAt(frac, b + 4)
        + 8 * DigitAt(frac, b + 5) + 4 * DigitAt(frac, b + 6)
        + 2 * DigitAt(frac, b + 7) + DigitAt(frac, b + 8)

\* digits of i * 0.frac from group c on, and the carry into group c - 1
RECURSIVE MulBits(_, _, _)
MulBits(i, frac, c) ==
    IF c > NumLimbs THEN [bits |-> <<>>, carry |-> 0]
    ELSE LET t == MulBits(i, frac, c + 1)
             v == i * LimbAt(frac, c) + t.carry
         IN  [bits |-> LimbBits(v % 256) \o t.bits, carry |-> v \div 256]

\* i * x for a Python int i >= 0 and a float x
FloatMul(i, x) ==
    LET m == MulBits(i, x.mag.frac, 1)
    IN  [neg |-> x.neg,
         mag |-> RoundNearestEven([int |-> i * x.mag.int + m.carry,
                                   frac |-> SubSeq(m.bits, 1, FracLen),
                                   sticky |-> FALSE])]

\* 1 - 0.frac for a non-zero fraction
Complement(frac) ==
    LET j == MaxOf(Ones(frac))
    IN  [k \in 1..FracLen |-> IF k < j THEN 1 - frac[k] ELSE frac[k]]

\* c + x for a Python int c >= 0 and a float x
FloatAdd(c, x) ==
    LET m == x.mag
        exact ==
          IF ~x.neg THEN [neg |-> FALSE, mag |-> [m EXCEPT !.int = c + m.int]]
          ELSE IF Ones(m.frac) = {}
               THEN [neg |-> m.int > c,
                     mag |-> [m EXCEPT !.int = Abs(c - m.int)]]
               ELSE IF m.int < c
                    THEN [neg |-> FALSE,
                          mag |-> [m EXCEPT !.int = c - m.int - 1,
                                            !.frac = Complement(m.frac)]]
                    ELSE [neg |-> TRUE, mag |-> [m EXCEPT !.int = m.int - c]]
    IN  [neg |-> exact.neg, mag |-> RoundNearestEven(exact.mag)]

\* int(x): truncation toward zero
FloatToInt(x) == IF x.neg THEN -x.mag.int ELSE x.mag.int

----------------------------------------------------------------------------
(* Text: str.strip, str.split and " ".join *)

Letters == {"a", "b"}

Alphabet == Letters \cup {" "}

TextsUpTo(L) == UNION {[1..k -> Alphabet] : k \in 0..L}

RECURSIVE Strip(_)
Strip(t) ==
    IF t = <<>> THEN t
    ELSE IF Head(t) = " " THEN Strip(Tail(t))
    ELSE IF t[Len(t)] = " " THEN Strip(SubSeq(t, 1, Len(t) - 1))
    ELSE t

\* length of the run of non-blank characters at the head of t
WordEnd(t) ==
    LET blanks == {k \in 1..Len(t) : t[k] = " "}
    IN  IF blanks = {} THEN Len(t) ELSE MinOf(blanks) - 1

RECURSIVE Split(_)
Split(t) ==
    IF t = <<>> THEN <<>>
    ELSE IF Head(t) = " " THEN Split(Tail(t))
    ELSE <<SubSeq(t, 1, WordEnd(t))>> \o Split(SubSeq(t, WordEnd(t) + 1, Len(t)))

RECURSIVE Join(_)
Join(ws) ==
    IF ws = <<>> THEN <<>>
    ELSE IF Len(ws) = 1 THEN ws[1]
    ELSE ws[1] \o <<" ">> \o Join(Tail(ws))

----------------------------------------------------------------------------
(* State *)

VARIABLES
    pc,         \* transcribe.py: "start", "transcribed" (document saved) or "exited"
    probe,      \* what ffprobe printed for the audio file
    result,     \* what the ASR pipeline returned for the audio file
    file,       \* the captions JSON document on disk, or NoFile
    exit_code,  \* exit status of the script that ran last
    call,       \* the last run of enhance_captions.py, or NoCall
    runs        \* number of runs of enhance_captions.py so far

vars == <<pc, probe, result, file, exit_code, call, runs>>

NoFile == [exists |-> FALSE]

NoCall == [kind |-> "none"]

----------------------------------------------------------------------------
(* transcribe.py *)

ProbeFailed == [ok |-> FALSE]

ProbeOk(ms) == [ok |-> TRUE, ms |-> ms]

\* float(stdout) raises when ffprobe printed no number; the value printed is
\* represented by the integer int(duration_s * 1000) it converts to
get_audio_duration_ms(p) == IF p.ok THEN p.ms ELSE 0

RECURSIVE ChunkWords(_)
ChunkWords(chunks) ==
    IF chunks = <<>> THEN <<>>
    ELSE LET chunk_text == Strip(Head(chunks).text)
         IN  (IF chunk_text = <<>> THEN <<>> ELSE Split(chunk_text))
             \o ChunkWords(Tail(chunks))

all_words(res) ==
    IF "chunks" \in DOMAIN res THEN ChunkWords(res.chunks)
    ELSE IF "text" \in DOMAIN res THEN Split(res.text)
    ELSE Split(<<>>)

NoWordsExitZero == 1 - 1

NoWordsExit == 1

audio_duration_ms(probed, words) ==
    IF probed <= 0 THEN Len(words) * 300 ELSE probed

start_offset_ms == 200

end_buffer_ms == 500

usable_duration(duration) == duration - start_offset_ms - end_buffer_ms

word_duration_ms(duration, words) == FloatDiv(usable_duration(duration), Len(words))

\* int(start_offset_ms + k * word_duration_ms)
OffsetMs(k, wd) == FloatToInt(FloatAdd(start_offset_ms, FloatMul(k, wd)))

captions(duration, words) ==
    LET wd == word_duration_ms(duration, words)
    IN  [j \in 1..Len(words) |->
            [text |-> words[j],
             startMs |-> OffsetMs(j - 1, wd),
             endMs |-> OffsetMs(j, wd),
             confidence |-> 90]]

model_name == "oriserve/whisper-hindi2hinglish-apex"

\* the timing fields load/transcribe time are wall-clock measurements and are left out
output(duration, words) ==
    LET caps == captions(duration, words)
    IN  [text |-> Join(words),
         language |-> "hi",
         model |-> model_name,
         captions |-> caps,
         stats |-> [total_words |-> Len(caps),
                    audio_duration_ms |-> duration,
                    first_word_ms |-> caps[1].startMs,
                    last_word_ms |-> caps[Len(caps)].endMs]]

TranscribeNoWords ==
    /\ pc = "start"
    /\ all_words(result) = <<>>
    /\ pc' = "exited"
    /\ exit_code' = NoWordsExit
    /\ UNCHANGED <<probe, result, file, call, runs>>

TranscribeSave ==
    /\ pc = "start"
    /\ all_words(result) # <<>>
    /\ LET words == all_words(result)
           duration == audio_duration_ms(get_audio_duration_ms(probe), words)
       IN  file' = output(duration, words)
    /\ pc' = "transcribed"
    /\ exit_code' = 0
    /\ UNCHANGED <<probe, result, call, runs>>

transcribe_audio == TranscribeNoWords \/ TranscribeSave

----------------------------------------------------------------------------
(* enhance_captions.py *)

SetField(c, k, v) == [f \in DOMAIN c \cup {k} |-> IF f = k THEN v ELSE c[f]]

BelowOrAt(confidence, threshold) == confidence <= threshold

Below(confidence, threshold) == confidence < threshold

flag_low_confidence(captions_data, threshold) ==
    [captions_data EXCEPT !.captions =
        [j \in 1..Len(captions_data.captions) |->
            LET caption == captions_data.captions[j]
            IN  IF Below(caption.confidence, threshold)
                THEN SetField(caption, "lowConfidence", TRUE)
                ELSE caption]]

\* outcomes of the external correction call
ImportFailed == [kind |-> "ImportError"]

PostFailed == [kind |-> "RequestException"]

Response(status, body) == [kind |-> "response", status |-> status, body |-> body]

NotJson == [kind |-> "not_json"]

NoChoices == [kind |-> "no_choices"]

Content(t) == [kind |-> "content", content |-> t]

NotCalled == [kind |-> "not_called"]

WordCountAtLeast(corrected_words, caps) == Len(corrected_words) >= Len(caps)

WordCountMatches(corrected_words, caps) == Len(corrected_words) = Len(caps)

CorrectTextFirst(caption, word) ==
    IF caption.text # word
    THEN LET replaced == SetField(caption, "text", word)
         IN  SetField(SetField(replaced, "original", replaced.text), "enhanced", TRUE)
    ELSE caption

Correct(caption, word) ==
    IF caption.text # word
    THEN SetField(SetField(SetField(caption, "original", caption.text),
                           "text", word), "enhanced", TRUE)
    ELSE caption

\* the body of the try block: the document it leaves and the exception it raised
TryBody(captions_data, api) ==
    IF api.kind = "RequestException"
    THEN [data |-> captions_data, exc |-> "RequestException"]
    ELSE IF api.status # 200
    THEN [data |-> captions_data, exc |-> "none"]
    ELSE IF api.body.kind = "not_json"
    THEN [data |-> captions_data, exc |-> "JSONDecodeError"]
    ELSE IF api.body.kind = "no_choices"
    THEN [data |-> captions_data, exc |-> "KeyError"]
    ELSE LET corrected_words == Split(Strip(api.body.content))
             caps == captions_data.captions
         IN  IF WordCountMatches(corrected_words, caps)
             THEN [data |-> [captions_data EXCEPT !.captions =
                               [j \in 1..Len(caps) |-> Correct(caps[j], corrected_words[j])]],
                   exc |-> "none"]
             ELSE [data |-> captions_data, exc |-> "none"]

ExceptRequestsOnly(exc) == exc = "RequestException"

\* except Exception: every exception the try block can raise is an Exception
ExceptException(exc) == exc \in {"RequestException", "JSONDecodeError", "KeyError"}

enhance_with_groq(captions_data, api) ==
    IF api.kind = "ImportError"
    THEN [data |-> captions_data, raised |-> FALSE]
    ELSE LET r == TryBody(captions_data, api)
         IN  [data |-> r.data, raised |-> r.exc # "none" /\ ~ExceptException(r.exc)]

Thresholds == {70, 90}

\* replies of the correction model: the word "b" (and "bb", ...) between blanks
Replies == UNION {[1..k -> {"b", " "}] : k \in 0..MaxReply}

ApiOutcomes ==
    {ImportFailed, PostFailed, Response(429, NotJson),
     Response(200, NotJson), Response(200, NoChoices)}
    \cup {Response(200, Content(t)) : t \in Replies}

EnhanceMissingInput ==
    /\ runs < MaxRuns
    /\ file = NoFile
    /\ exit_code' = 1
    /\ runs' = runs + 1
    /\ UNCHANGED <<pc, probe, result, file, call>>

\* main with an existing input: json.loads of the saved document gives back the
\* document that json.dumps wrote; the output path defaults to the input path
EnhanceRun ==
    /\ runs < MaxRuns
    /\ file # NoFile
    /\ \E threshold \in Thresholds, api_key \in {"", "key"}, outcome \in ApiOutcomes :
         LET flagged == flag_low_confidence(file, threshold)
             api == IF api_key # "" THEN outcome ELSE NotCalled
             r == IF api_key # "" THEN enhance_with_groq(flagged, api)
                  ELSE [data |-> flagged, raised |-> FALSE]
         IN  /\ api_key = "" => outcome = ImportFailed
             /\ call' = [kind |-> "run", input |-> file, threshold |-> threshold,
                         flagged |-> flagged, api |-> api, returned |-> r.data,
                         raised |-> r.raised]
             /\ file' = IF r.raised THEN file ELSE r.data
             /\ exit_code' = IF r.raised THEN 1 ELSE 0
    /\ runs' = runs + 1
    /\ UNCHANGED <<pc, probe, result>>

enhance_main == EnhanceMissingInput \/ EnhanceRun

----------------------------------------------------------------------------
(* Specifications *)

\* a result whose text holds n one-letter words
PlainResult(n) == [text |-> Join([j \in 1..n |-> IF j % 2 = 1 THEN <<"a">> ELSE <<"b">>])]

ChunkTexts == TextsUpTo(MaxChunkLen)

Results ==
    {[other |-> <<>>]}
    \cup {[text |-> t] : t \in ChunkTexts}
    \cup {[chunks |-> <<[text |-> c]>>] : c \in ChunkTexts}
    \cup {[chunks |-> <<[text |-> c], [text |-> d]>>] : c \in ChunkTexts, d \in TextsUpTo(1)}

Fresh ==
    /\ pc = "start"
    /\ file = NoFile
    /\ exit_code = 0
    /\ call = NoCall
    /\ runs = 0

\* timing allocation: every duration up to MaxDur with every word count up to
\* MaxWords, every shape of ASR result with a failed probe, and the 10-word,
\* 10-second example
InitAlloc ==
    /\ Fresh
    /\ \/ /\ result \in {PlainResult(n) : n \in 0..MaxWords}
          /\ probe \in {ProbeFailed} \cup {ProbeOk(ms) : ms \in 0..MaxDur}
       \/ /\ result \in Results
          /\ probe = ProbeFailed
       \/ /\ result = PlainResult(10)
          /\ probe = ProbeOk(10000)

SpecAlloc == InitAlloc /\ [][transcribe_audio]_vars

\* the pipeline: transcribe, then runs of the enhancement stage on its output
Init ==
    /\ Fresh
    /\ result \in {[other |-> <<>>], PlainResult(1), PlainResult(2),
                   [chunks |-> <<[text |-> <<" ", "a">>], [text |-> <<" ">>],
                                                [text |-> <<"b", " ">>]>>]}
    /\ probe \in {ProbeFailed, ProbeOk(0), ProbeOk(2000)}

Next == transcribe_audio \/ enhance_main

Spec == Init /\ [][Next]_vars

\* the enhancement stage alone, on any well-formed captions document
Words == {<<"a">>, <<"b">>}

Confidences == {50, 90}

InputCaptions ==
    UNION {[1..k -> [text : Words, confidence : Confidences]] : k \in 0..MaxCaps}

InputDocument(cs) ==
    [text |-> Join([j \in 1..Len(cs) |-> cs[j].text]),
     language |-> "hi",
     model |-> model_name,
     captions |-> [j \in 1..Len(cs) |->
                     [text |-> cs[j].text, startMs |-> 300 * (j - 1),
                      endMs |-> 300 * j, confidence |-> cs[j].confidence]],
     stats |-> [total_words |-> Len(cs)]]

InitEnhance ==
    /\ pc = "transcribed"
    /\ probe = ProbeFailed
    /\ result = [other |-> <<>>]
    /\ file \in {NoFile} \cup {InputDocument(cs) : cs \in InputCaptions}
    /\ exit_code = 0
    /\ call = NoCall
    /\ runs = 0

SpecEnhance == InitEnhance /\ [][enhance_main]_vars

----------------------------------------------------------------------------
(* Properties of the timing allocation (SpecAlloc) *)

Saved == pc = "transcribed"

WordCount == Len(all_words(result))

Probed == get_audio_duration_ms(probe)

LastCaption == file.captions[Len(file.captions)]

\* C1: for every non-empty word sequence and every probed duration (measured,
\* or 0 and then estimated), there is exactly one caption per word, in input
\* order, and every caption has 0 <= startMs < endMs.
C1_OneCaptionPerWordPositiveSpan ==
    Saved =>
        /\ Len(file.captions) = WordCount
        /\ \A j \in 1..WordCount :
             /\ file.captions[j].text = all_words(result)[j]
             /\ 0 <= file.captions[j].startMs
             /\ file.captions[j].startMs < file.captions[j].endMs

\* C2: when the probe returned 0 and the duration is estimated as
\* word_count * 300, there is no lead-in and no trailing buffer: the first
\* caption starts at 0 and the last caption ends at word_count * 300.
C2_EstimatedSpanIsWhole ==
    (Saved /\ Probed = 0) =>
        /\ file.captions[1].startMs = 0
        /\ LastCaption.endMs = WordCount * 300

\* C3: with an empty word list transcribe_audio saves an empty caption
\* sequence with zero duration and ends without an error.
C3_EmptyWordsSucceed ==
    (pc # "start" /\ WordCount = 0) =>
        /\ exit_code = 0
        /\ file # NoFile
        /\ file.captions = <<>>
        /\ file.stats.audio_duration_ms = 0

\* C3 (amended): with an empty word list transcribe_audio saves no document
\* and ends the process with exit status 1; with a non-empty one it saves
\* the document and ends normally.
C3_EmptyWordsExitOne ==
    pc # "start" =>
        IF WordCount = 0
        THEN pc = "exited" /\ exit_code = 1 /\ file = NoFile
        ELSE pc = "transcribed" /\ exit_code = 0 /\ file # NoFile

C3_Witness == pc = "exited" /\ WordCount = 0 /\ exit_code = 1 /\ file = NoFile

TruncDiv(a, n) == IF a < 0 THEN -((-a) \div n) ELSE a \div n

\* C8: with a measured duration D, word i of n (from 0) gets the interval from
\* 200 + i*w to 200 + (i+1)*w in whole milliseconds, w = (D - 200 - 500) / n,
\* so the first caption starts at 200 and the last ends at D - 500.
C8_ProbeBackedIntervals ==
    (Saved /\ Probed > 0) =>
        /\ \A j \in 1..WordCount :
             /\ file.captions[j].startMs
                  = TruncDiv(200 * WordCount + (j - 1) * (Probed - 200 - 500), WordCount)
             /\ file.captions[j].endMs
                  = TruncDiv(200 * WordCount + j * (Probed - 200 - 500), WordCount)
        /\ file.captions[1].startMs = 200
        /\ LastCaption.endMs = Probed - 500

----------------------------------------------------------------------------
(* Properties of the pipeline (Spec) *)

\* C10: in every document a stage has saved, the aggregate text is the
\* space-joined caption texts in order and stats.total_words is the number
\* of captions.
C10_AggregatesMatchCaptions ==
    file # NoFile =>
        /\ file.text = Join([j \in 1..Len(file.captions) |-> file.captions[j].text])
        /\ file.stats.total_words = Len(file.captions)

----------------------------------------------------------------------------
(* Properties of the enhancement stage (SpecEnhance) *)

Ran == call.kind = "run"

Replied == Ran /\ call.api.kind = "response" /\ call.api.status = 200
           /\ call.api.body.kind = "content"

CorrectedWords == Split(Strip(call.api.body.content))

\* C4: when the corrected word sequence and the captions differ in length,
\* enhance_with_groq returns its input unchanged in every field of every
\* caption, and returns normally.
C4_MismatchRejected ==
    (Replied /\ Len(CorrectedWords) # Len(call.flagged.captions)) =>
        /\ call.returned = call.flagged
        /\ ~call.raised

C4_Witness ==
    /\ Replied
    /\ Len(call.flagged.captions) = 2
    /\ Len(CorrectedWords) = 1
    /\ CorrectedWords[1] # call.flagged.captions[1].text
    /\ call.returned = call.flagged
    /\ file = call.flagged

\* C5: when the corrected word sequence has as many words as there are
\* captions, a caption whose corrected word differs gets original = its prior
\* text, text = the corrected word and enhanced = true and keeps its other
\* fields; a caption whose corrected word is its text is untouched; the number
\* and order of captions is unchanged.
C5_CorrectionApplied ==
    (Replied /\ Len(CorrectedWords) = Len(call.flagged.captions)) =>
        /\ Len(call.returned.captions) = Len(call.flagged.captions)
        /\ \A j \in 1..Len(call.flagged.captions) :
             LET before == call.flagged.captions[j]
                 after  == call.returned.captions[j]
             IN  IF CorrectedWords[j] # before.text
                 THEN /\ DOMAIN after = DOMAIN before \cup {"original", "enhanced"}
                      /\ after.original = before.text
                      /\ after.text = CorrectedWords[j]
                      /\ after.enhanced = TRUE
                      /\ \A f \in DOMAIN before \ {"text", "original", "enhanced"} :
                           after[f] = before[f]
                 ELSE after = before

C5_Witness ==
    /\ Replied
    /\ Len(call.flagged.captions) = 2
    /\ Len(CorrectedWords) = 2
    /\ CorrectedWords[1] # call.flagged.captions[1].text
    /\ CorrectedWords[2] = call.flagged.captions[2].text
    /\ call.returned.captions[1].original = call.flagged.captions[1].text
    /\ "enhanced" \notin DOMAIN call.returned.captions[2]

CallFailed ==
    \/ call.api.kind = "RequestException"
    \/ /\ call.api.kind = "response"
       /\ \/ call.api.status # 200
          \/ call.api.body.kind \in {"not_json", "no_choices"}

\* C6: a failed correction call (network error or timeout, non-200 status,
\* malformed body) makes enhance_with_groq return its input unchanged; no
\* exception escapes it for any document and any outcome of the call; and
\* main then saves the document.
C6_FailureKeepsDocument ==
    Ran =>
        /\ ~call.raised
        /\ CallFailed => call.returned = call.flagged
        /\ file = call.returned
        /\ exit_code = 0

C6_Witness ==
    /\ Ran
    /\ call.api = Response(200, NotJson)
    /\ Len(call.input.captions) = 2
    /\ call.returned = call.flagged
    /\ file = call.flagged

Flagged(caption) == "lowConfidence" \in DOMAIN caption

\* C9: flag_low_confidence with threshold t adds lowConfidence: true to
\* exactly the captions whose confidence is strictly below t and changes
\* nothing else; flagging its own output again with t changes nothing.
C9_FlagsExactlyBelowThreshold ==
    Ran =>
        /\ Len(call.flagged.captions) = Len(call.input.captions)
        /\ [call.flagged EXCEPT !.captions = <<>>] = [call.input EXCEPT !.captions = <<>>]
        /\ \A j \in 1..Len(call.input.captions) :
             LET before == call.input.captions[j]
                 after  == call.flagged.captions[j]
             IN  /\ Flagged(after) <=> (before.confidence < call.threshold \/ Flagged(before))
                 /\ Flagged(after) => after.lowConfidence = TRUE
                 /\ DOMAIN after \ {"lowConfidence"} = DOMAIN before \ {"lowConfidence"}
                 /\ \A f \in DOMAIN before \ {"lowConfidence"} : after[f] = before[f]
                 /\ before.confidence >= call.threshold => after = before
        /\ flag_low_confidence(call.flagged, call.threshold) = call.flagged

C9_Witness ==
    /\ Ran
    /\ Len(call.input.captions) = 2
    /\ call.input.captions[1].confidence < call.threshold
    /\ call.input.captions[2].confidence = call.threshold
    /\ ~Flagged(call.input.captions[1])
    /\ Flagged(call.flagged.captions[1])
    /\ ~Flagged(call.flagged.captions[2])

====
